---- MODULE Spec2Model ----
(***************************************************************************)
(* Model of the patent / paper dashboard (patent_app_v1.5.py): the CSV     *)
(* loaders, the derive step of the count views and the difficulty scorer.  *)
(*                                                                         *)
(* Runs repeat (Streamlit re-runs the script on every widget change) with  *)
(* the loaders behind st.cache_data in SpecDashboard and SpecCache.        *)
(*                                                                         *)
(* A table (pandas DataFrame) is a record [cols, rows]: cols is the        *)
(* sequence of column names in file order (names may repeat after a        *)
(* rename), rows is a sequence of rows, each a sequence of cells aligned   *)
(* with cols.  Text cells (technical elements, countries, ...) are         *)
(* integer codes ordered as the strings they stand for.                    *)
(***************************************************************************)
EXTENDS Integers, Sequences, FiniteSets, TLC

VARIABLES
  view,       \* view_mode of the run: "monthly", "grouped" or "difficulty"
  file,       \* content of the CSV file the run reads
  pc,         \* position of the script run
  df,         \* the script's current table (df / df_diff)
  group_col,  \* the group column of the count views
  sel,        \* the technical element picked in a grouped view
  error,      \* the exception that ended the run, if any
  disk,       \* the CSV files by path, where runs repeat and files change
  cache,      \* the st.cache_data entries of the loaders, by path
  session_state,  \* st.session_state: the widget values kept between runs
  df_sel,     \* df_diff restricted to the selected technical elements
  bar_df,     \* the data of the Composite Score bar chart
  page,       \* the elements the run has put on the page, in order
  computed    \* the run executed the body of its cached loader (cache miss)

vars == <<view, file, pc, df, group_col, sel, error,
          disk, cache, session_state, df_sel, bar_df, page, computed>>

\* what the difficulty mode adds to a run
uiVars == <<session_state, df_sel, bar_df, page, computed>>

(***************************************************************************)
(* DataFrame primitives                                                    *)
(***************************************************************************)
Range(s) == {s[i] : i \in DOMAIN s}

NoTable == [cols |-> <<>>, rows |-> <<>>]

NoError == [type |-> "none", name |-> ""]

KeyError(c) == [type |-> "KeyError", name |-> c]

\* 'DataFrame' object has no attribute 'unique': df[c] with c naming
\* several columns is a DataFrame, not a Series.
AttributeError(c) == [type |-> "AttributeError", name |-> c]

\* c in df / c in df.columns
HasCol(t, c) == c \in Range(t.cols)

ColIdxs(t, c) == {i \in DOMAIN t.cols : t.cols[i] = c}

\* position of the (first) column named c
ColIdx(t, c) == CHOOSE i \in ColIdxs(t, c) : \A j \in ColIdxs(t, c) : i <= j

\* t[c] as the sequence of its cells, row by row
Column(t, c) == [r \in DOMAIN t.rows |-> t.rows[r][ColIdx(t, c)]]

\* t.rename(columns=m): m is a function from old names to new names; names
\* that are not columns of t are ignored, every column so named is renamed.
Rename(t, m) ==
  [t EXCEPT !.cols = [i \in DOMAIN t.cols |->
                        IF t.cols[i] \in DOMAIN m THEN m[t.cols[i]] ELSE t.cols[i]]]

RECURSIVE Pick(_, _, _)
\* the subsequence of s at the positions >= i that are in keep
Pick(s, keep, i) ==
  IF i > Len(s) THEN <<>>
  ELSE (IF i \in keep THEN <<s[i]>> ELSE <<>>) \o Pick(s, keep, i + 1)

\* ~t.columns.duplicated(): the positions holding the first occurrence of a name
FirstOccurrences(t) ==
  {i \in DOMAIN t.cols : \A j \in DOMAIN t.cols : j < i => t.cols[j] # t.cols[i]}

\* t.loc[:, mask]: the columns at the positions in keep
KeepColumns(t, keep) ==
  [cols |-> Pick(t.cols, keep, 1),
   rows |-> [r \in DOMAIN t.rows |-> Pick(t.rows[r], keep, 1)]]

\* t.loc[:, ~t.columns.duplicated()]
DropDuplicateColumns(t) == KeepColumns(t, FirstOccurrences(t))

\* t.rows[r][c]: the cell of row r in the (first) column named c
Cell(t, r, c) == t.rows[r][ColIdx(t, c)]

\* t[t[c] == v]
FilterEq(t, c, v) ==
  LET ci == ColIdx(t, c)
  IN  [t EXCEPT !.rows = SelectSeq(t.rows, LAMBDA row : row[ci] = v)]

\* t[name] = values: a new last column
WithColumn(t, name, values) ==
  [cols |-> Append(t.cols, name),
   rows |-> [r \in DOMAIN t.rows |-> Append(t.rows[r], values[r])]]

(***************************************************************************)
(* Timestamps                                                              *)
(***************************************************************************)
\* pd.NaT, the null timestamp; a parsed timestamp is a positive month ordinal
NaT == 0

\* pd.to_datetime(x, errors="coerce") of one cell: "YYYY-MM" parses to the
\* first day of that month, anything unparseable becomes NaT.
ToDatetime(x) ==
  CASE x = "2023-01" -> 1
    [] x = "2023-02" -> 2
    [] OTHER -> NaT

\* df["year_month"] = pd.to_datetime(df["year_month"], errors="coerce")
ParseYearMonth(t) ==
  LET ci == ColIdx(t, "year_month")
  IN  [t EXCEPT !.rows = [r \in DOMAIN t.rows |->
                            [t.rows[r] EXCEPT ![ci] = ToDatetime(t.rows[r][ci])]]]

(***************************************************************************)
(* Loaders                                                                 *)
(***************************************************************************)
\* the alias columns load_monthly renames to technical_element
MonthlyAliases == {"category", "Technical_elements", "technical_elements"}

\* rename_map of load_monthly: items -> count and every alias that is a
\* column -> technical_element
MonthlyRenameMap(t) ==
  [c \in {"items"} \cup {a \in MonthlyAliases : HasCol(t, a)} |->
     IF c = "items" THEN "count" ELSE "technical_element"]

load_monthly(raw) ==
  LET t == ParseYearMonth(raw)
  IN  Rename(t, MonthlyRenameMap(t))

\* the key loop trying the lower-case name of each pair first
KeyCandidatesLowerFirst ==
  <<"country", "Country", "company", "Company", "industry", "Industry">>

\* the priority list of load_country's key loop
KeyCandidates == <<"Country", "country", "Company", "company", "industry", "Industry">>

RECURSIVE FirstPresent(_, _, _)
\* the first name of cands, from position i on, that is a column of t; "" if none
FirstPresent(t, cands, i) ==
  IF i > Len(cands) THEN ""
  ELSE IF HasCol(t, cands[i]) THEN cands[i]
  ELSE FirstPresent(t, cands, i + 1)

\* for c in [...]: if c in df.columns: rename c -> key; break
RenameKey(t) ==
  LET c == FirstPresent(t, KeyCandidates, 1)
  IN  IF c = "" THEN t ELSE Rename(t, [x \in {c} |-> "key"])

load_country(raw) ==
  LET t0 == ParseYearMonth(raw)
      t1 == Rename(t0, [x \in {"items"} |-> "count"])
      t2 == IF HasCol(t1, "Technical_elements")
              THEN Rename(t1, [x \in {"Technical_elements"} |-> "technical_element"])
              ELSE t1
      t3 == IF HasCol(t2, "technical_elements")
              THEN Rename(t2, [x \in {"technical_elements"} |-> "technical_element"])
              ELSE t2
  IN  RenameKey(t3)

(***************************************************************************)
(* Derive step                                                             *)
(***************************************************************************)
\* the order of the month ordinals alone: NaT sorts first
TsLessNullFirst(x, y) == x < y

\* order of two timestamps under sort_values: NaT sorts last
TsLess(x, y) == x # NaT /\ (y = NaT \/ x < y)

\* row a sorts strictly before row b by (group column, year_month)
RowLess(a, b, gi, ti) ==
  \/ a[gi] < b[gi]
  \/ a[gi] = b[gi] /\ TsLess(a[ti], b[ti])

\* sorted with row r put before the rows that compare equal to it
InsertRowBeforeEqual(sorted, r, gi, ti) ==
  LET k == Cardinality({i \in DOMAIN sorted : RowLess(sorted[i], r, gi, ti)})
  IN  SubSeq(sorted, 1, k) \o <<r>> \o SubSeq(sorted, k + 1, Len(sorted))

\* sorted with row r put after every row that does not sort after it
InsertRow(sorted, r, gi, ti) ==
  LET k == Cardinality({i \in DOMAIN sorted : ~RowLess(r, sorted[i], gi, ti)})
  IN  SubSeq(sorted, 1, k) \o <<r>> \o SubSeq(sorted, k + 1, Len(sorted))

RECURSIVE SortRows(_, _, _, _)
\* the first n rows, sorted; rows that compare equal keep their input order
SortRows(rows, n, gi, ti) ==
  IF n = 0 THEN <<>>
  ELSE InsertRow(SortRows(rows, n - 1, gi, ti), rows[n], gi, ti)

\* t.sort_values([g, "year_month"])
SortValues(t, g) ==
  [t EXCEPT !.rows = SortRows(t.rows, Len(t.rows), ColIdx(t, g), ColIdx(t, "year_month"))]

RECURSIVE SumOver(_, _)
\* the sum of f over the finite set S of its arguments
SumOver(f, S) ==
  IF S = {} THEN 0
  ELSE LET x == CHOOSE y \in S : TRUE IN f[x] + SumOver(f, S \ {x})

\* t[c].cumsum(): the running sum over all rows, whatever their group
CumsumUngrouped(t, g, c) ==
  LET vals == Column(t, c)
  IN  [r \in DOMAIN t.rows |-> SumOver(vals, {q \in DOMAIN t.rows : q <= r})]

\* the running sum of the group without the row itself: it starts at 0
GroupCumsumExclusive(t, g, c) ==
  LET keys == Column(t, g)
      vals == Column(t, c)
  IN  [r \in DOMAIN t.rows |->
         SumOver(vals, {q \in DOMAIN t.rows : q < r /\ keys[q] = keys[r]})]

\* the running sum of the count column of the group, whatever c
GroupCumsumOfCount(t, g, c) ==
  LET keys == Column(t, g)
      vals == Column(t, "count")
  IN  [r \in DOMAIN t.rows |->
         SumOver(vals, {q \in DOMAIN t.rows : q <= r /\ keys[q] = keys[r]})]

\* d = t[t[g] == k]; d[c].cumsum(): the running sum over the slice of key k
\* (patent_app_v1.1.py, cumulative moving average)
SliceCumsum(t, g, k, c) ==
  LET vals == Column(FilterEq(t, g, k), c)
  IN  [r \in DOMAIN vals |-> SumOver(vals, {q \in DOMAIN vals : q <= r})]

\* t.groupby(g)[c].cumsum(): for each row, the sum of c over the rows of its
\* group up to and including it
GroupCumsum(t, g, c) ==
  LET keys == Column(t, g)
      vals == Column(t, c)
  IN  [r \in DOMAIN t.rows |->
         SumOver(vals, {q \in DOMAIN t.rows : q <= r /\ keys[q] = keys[r]})]

(***************************************************************************)
(* Input files of the count views                                          *)
(***************************************************************************)
\* largest number of rows of a monthly input file
MaxRows == 3

\* largest number of rows of a grouped input file
MaxGroupedRows == 2

\* year_month cells as written in a file; "2023-13" does not parse
RawDates == {"2023-01", "2023-02", "2023-13"}

\* technical elements and group keys (country, company, industry) of the files
Techs == {1, 2}

Keys == {1, 2}

\* items cells; the files are not checked, so a negative cell can be read
Counts == {-1, 2}

\* the sequences over S of length 1..n
SeqsUpTo(S, n) == UNION {[1..k -> S] : k \in 1..n}

MonthlyHeader == <<"year_month", "category", "items", "ma_6", "conversion_flag">>

GroupedHeader ==
  <<"year_month", "Technical_elements", "Country", "items", "ma_6", "conversion_flag">>

MonthlyFiles ==
  {[cols |-> MonthlyHeader, rows |-> rs] :
     rs \in SeqsUpTo({<<d, t, n, 1, TRUE>> : d \in RawDates, t \in Techs, n \in Counts},
                     MaxRows)}

\* ma_6 cells of the files that vary the moving average
Averages == {1, 3}

\* monthly files with the counts fixed and the moving average varied
AverageFiles ==
  {[cols |-> MonthlyHeader, rows |-> rs] :
     rs \in SeqsUpTo({<<d, t, 2, a, TRUE>> : d \in {"2023-01", "2023-02"}, t \in Techs,
                                              a \in Averages},
                     MaxRows)}

GroupedFiles ==
  {[cols |-> GroupedHeader, rows |-> rs] :
     rs \in SeqsUpTo({<<d, t, k, n, 1, TRUE>> :
                        d \in RawDates, t \in Techs, k \in Keys, n \in Counts},
                     MaxGroupedRows)}

\* the scenario of the specification: two months of the element AI (code 1),
\* ma_6 in tenths
ScenarioFile ==
  [cols |-> MonthlyHeader,
   rows |-> << <<"2023-01", 1, 10, 85, FALSE>>, <<"2023-02", 1, 5, 70, TRUE>> >>]

\* the columns a file may or may not have, besides year_month, ma_6 and
\* conversion_flag
OptionalColumns ==
  <<"category", "Technical_elements", "technical_elements", "items",
    "Country", "country", "Company", "company", "industry", "Industry">>

Reverse(s) == [i \in DOMAIN s |-> s[Len(s) + 1 - i]]

\* left-to-right orders of the optional columns in a file
ColumnOrders ==
  {OptionalColumns,
   Reverse(OptionalColumns),
   <<"company", "technical_elements", "Industry", "category", "Country", "items",
     "industry", "Technical_elements", "country", "Company">>}

\* a cell of text column c: every column of a file holds its own values
TextCell(c, base) == 10 * base + ColIdx([cols |-> OptionalColumns], c)

\* two rows of a file with header h, the later month first
SchemaRows(h) ==
  LET cell(c, d, b, n) ==
        CASE c = "year_month" -> d
          [] c = "items" -> n
          [] c = "ma_6" -> 1
          [] c = "conversion_flag" -> TRUE
          [] OTHER -> TextCell(c, b)
  IN  << [i \in DOMAIN h |-> cell(h[i], "2023-02", 2, 2)],
         [i \in DOMAIN h |-> cell(h[i], "2023-01", 1, 1)] >>

\* files with any subset of the optional columns, in any of the orders
SchemaFiles ==
  {LET h == <<"year_month">> \o SelectSeq(o, LAMBDA c : c \in present)
                \o <<"ma_6", "conversion_flag">>
   IN  [cols |-> h, rows |-> SchemaRows(h)] :
     o \in ColumnOrders, present \in SUBSET Range(OptionalColumns)}

Inputs ==
  {[view |-> "monthly", file |-> f] : f \in MonthlyFiles \cup AverageFiles \cup SchemaFiles \cup {ScenarioFile}}
    \cup {[view |-> "grouped", file |-> f] : f \in GroupedFiles \cup SchemaFiles}

(***************************************************************************)
(* Cache, session state and page                                           *)
(***************************************************************************)
\* data_path, country_path / company_path / industry_path, difficulty_path
Paths == {"monthly", "grouped", "difficulty"}

\* @st.cache_data: one entry per loader argument; nothing is stored at start
NoEntry == [present |-> FALSE, table |-> NoTable]

Entry(t) == [present |-> TRUE, table |-> t]

EmptyCache == [p \in Paths |-> NoEntry]

\* no widget has run yet: the first run of a session takes the defaults
\* (the two checkboxes of the count views are on by default)
NewSession ==
  [keys |-> {}, metric |-> "", group |-> "", tech_sel |-> {}, bar_tech |-> 0,
   raw |-> TRUE, ma |-> TRUE]

\* the derive step working on the cached frame itself: the entry of the
\* path becomes the derived table
CacheAliased(c, p, t) == [c EXCEPT ![p] = [present |-> c[p].present, table |-> t]]

\* the cache entries after the derive step: .loc[...] and sort_values build
\* new frames and the two columns are added to those, so the frame the
\* loader returned, and the entry it was copied from, stay as they were
CacheAfterDerive(c, p, t) == c

\* a single run on one file: nothing cached, no widget state, empty page
SingleRun ==
  /\ disk = [p \in Paths |-> NoTable]
  /\ cache = EmptyCache
  /\ session_state = NewSession
  /\ df_sel = NoTable
  /\ bar_df = NoTable
  /\ page = <<>>
  /\ computed = FALSE

(***************************************************************************)
(* The script run of a count view (patent / paper mode)                    *)
(***************************************************************************)
Init ==
  /\ \E inp \in Inputs : view = inp.view /\ file = inp.file
  /\ pc = "start"
  /\ df = NoTable
  /\ group_col = ""
  /\ sel = 0
  /\ error = NoError
  /\ SingleRun

\* df = load_monthly(path); group_col = "technical_element"
LoadMonthly ==
  /\ pc = "start" /\ view = "monthly"
  /\ df' = load_monthly(file)
  /\ group_col' = "technical_element"
  /\ pc' = "ready"
  /\ UNCHANGED <<view, file, sel, error>>
  /\ UNCHANGED <<disk, cache, uiVars>>

\* df = load_country(path)
LoadCountry ==
  /\ pc = "start" /\ view = "grouped"
  /\ df' = load_country(file)
  /\ pc' = "loaded"
  /\ UNCHANGED <<view, file, group_col, sel, error>>
  /\ UNCHANGED <<disk, cache, uiVars>>

\* sel = selectbox(df["technical_element"].unique());
\* df = df[df["technical_element"] == sel]; group_col = "key"
Select ==
  /\ pc = "loaded" /\ view = "grouped"
  /\ IF ~HasCol(df, "technical_element")
       THEN /\ pc' = "failed" /\ error' = KeyError("technical_element")
            /\ UNCHANGED <<df, group_col, sel>>
     ELSE IF Cardinality(ColIdxs(df, "technical_element")) > 1
       THEN /\ pc' = "failed" /\ error' = AttributeError("technical_element")
            /\ UNCHANGED <<df, group_col, sel>>
     ELSE \E s \in Range(Column(df, "technical_element")) :
            /\ sel' = s
            /\ df' = FilterEq(df, "technical_element", s)
            /\ group_col' = "key"
            /\ pc' = "ready"
            /\ UNCHANGED error
  /\ UNCHANGED <<view, file, disk, cache, uiVars>>

\* df = df.loc[:, ~df.columns.duplicated()].sort_values([group_col, "year_month"])
\* df["cumulative"] = df.groupby(group_col)["count"].cumsum()
\* df["ma6_cum"]    = df.groupby(group_col)["ma_6"].cumsum()
Derive ==
  /\ pc = "ready"
  /\ LET d == DropDuplicateColumns(df)
     IN  IF ~HasCol(d, group_col)
           THEN /\ pc' = "failed" /\ error' = KeyError(group_col) /\ UNCHANGED df
         ELSE LET s == SortValues(d, group_col)
              IN  IF ~HasCol(s, "count")
                    THEN /\ pc' = "failed" /\ error' = KeyError("count") /\ df' = s
                  ELSE LET c == WithColumn(s, "cumulative", GroupCumsum(s, group_col, "count"))
                       IN  IF ~HasCol(c, "ma_6")
                             THEN /\ pc' = "failed" /\ error' = KeyError("ma_6") /\ df' = c
                           ELSE /\ df' = WithColumn(c, "ma6_cum",
                                                    GroupCumsum(c, group_col, "ma_6"))
                                /\ pc' = "derived"
                                /\ UNCHANGED error
  /\ cache' = CacheAfterDerive(cache, view, df')
  /\ UNCHANGED <<view, file, group_col, sel, disk, uiVars>>

Next == LoadMonthly \/ LoadCountry \/ Select \/ Derive

Spec == Init /\ [][Next]_vars

(***************************************************************************)
(* Difficulty scorer                                                       *)
(***************************************************************************)
\* Scores are exact rationals with denominator One: One stands for 1.0.
One == 8 * 100

\* TRL normalised on the 1-5 scale of the two feasibility ratings
TRLNormOnFeasibilityScale(x) == ((x - 1) * One) \div 4

\* (df["TRL"] - 1) / 8
TRLNorm(x) == ((x - 1) * One) \div 8

\* (df["Technical_Feasibility"] - 1) / 4
TechNorm(x) == ((x - 1) * One) \div 4

\* 1 - (df["Social_Feasibility"] - 1) / 4
SocialInvNorm(x) == One - ((x - 1) * One) \div 4

\* the weights of the Composite Score, in hundredths
WeightTRL == 35

WeightTech == 50

WeightSocial == 20

\* the Composite Score with the social weight 0.15, which makes the weights sum to 1
CompositeScoreUnitWeights(trl, tech, social) ==
  (WeightTRL * (trl - 1) * One) \div (100 * 8)
    + (WeightTech * (tech - 1) * One) \div (100 * 4)
    + (15 * (One - ((social - 1) * One) \div 4)) \div 100

\* 0.35 * (trl - 1) / 8 + 0.50 * (tech - 1) / 4 + 0.20 * (1 - (social - 1) / 4)
CompositeScore(trl, tech, social) ==
  (WeightTRL * (trl - 1) * One) \div (100 * 8)
    + (WeightTech * (tech - 1) * One) \div (100 * 4)
    + (WeightSocial * (One - ((social - 1) * One) \div 4)) \div 100

\* for dim in ["industry", "company"]
Dims == <<"industry", "company">>

\* the rating columns the scorer reads
Ratings == <<"TRL", "Technical_Feasibility", "Social_Feasibility">>

\* f"{rating}_{dim}"
Suffixed(rating, dim) ==
  CASE rating = "TRL" /\ dim = "industry" -> "TRL_industry"
    [] rating = "TRL" /\ dim = "company" -> "TRL_company"
    [] rating = "TRL" /\ dim = "tech" -> "TRL_tech"
    [] rating = "Technical_Feasibility" /\ dim = "industry" -> "Technical_Feasibility_industry"
    [] rating = "Technical_Feasibility" /\ dim = "company" -> "Technical_Feasibility_company"
    [] rating = "Technical_Feasibility" /\ dim = "tech" -> "Technical_Feasibility_tech"
    [] rating = "Social_Feasibility" /\ dim = "industry" -> "Social_Feasibility_industry"
    [] rating = "Social_Feasibility" /\ dim = "company" -> "Social_Feasibility_company"
    [] rating = "Social_Feasibility" /\ dim = "tech" -> "Social_Feasibility_tech"

\* f"Composite_Score_{dim}"
CompositeCol(dim) ==
  IF dim = "industry" THEN "Composite_Score_industry" ELSE "Composite_Score_company"

\* the rename of load_difficulty
DifficultyRenameMap ==
  [c \in {"technology", "TRL_tech", "Technical_Feasibility_tech", "Social_Feasibility_tech"} |->
     CASE c = "technology" -> "technical_element"
       [] c = "TRL_tech" -> "TRL"
       [] c = "Technical_Feasibility_tech" -> "Technical_Feasibility"
       [] c = "Social_Feasibility_tech" -> "Social_Feasibility"]

\* the columns load_difficulty looks up, in the order it evaluates them
LookupOrder ==
  Ratings \o [i \in 1..(Len(Dims) * Len(Ratings)) |->
                Suffixed(Ratings[((i - 1) % Len(Ratings)) + 1],
                         Dims[((i - 1) \div Len(Ratings)) + 1])]

\* df[f"Composite_Score_{dim}"] = ... for one dim
WithComposite(t, dim) ==
  WithColumn(t, CompositeCol(dim),
             [r \in DOMAIN t.rows |->
                CompositeScore(Column(t, Suffixed("TRL", dim))[r],
                               Column(t, Suffixed("Technical_Feasibility", dim))[r],
                               Column(t, Suffixed("Social_Feasibility", dim))[r])])

\* the base-level normalisation
WithNorms(t) ==
  LET a == WithColumn(t, "TRL_norm",
                      [r \in DOMAIN t.rows |-> TRLNorm(Column(t, "TRL")[r])])
      b == WithColumn(a, "Tech_norm",
                      [r \in DOMAIN t.rows |-> TechNorm(Column(t, "Technical_Feasibility")[r])])
  IN  WithColumn(b, "Social_inv_norm",
                 [r \in DOMAIN t.rows |-> SocialInvNorm(Column(t, "Social_Feasibility")[r])])

RECURSIVE FirstMissing(_, _, _)
\* the first name of names, from position i on, that is no column of t; "" if none
FirstMissing(t, names, i) ==
  IF i > Len(names) THEN ""
  ELSE IF ~HasCol(t, names[i]) THEN names[i]
  ELSE FirstMissing(t, names, i + 1)

\* load_difficulty(path): the scored table, or the KeyError of the first
\* column looked up that the renamed table lacks
load_difficulty(raw) ==
  LET t == Rename(raw, DifficultyRenameMap)
      missing == FirstMissing(t, LookupOrder, 1)
  IN  IF missing # ""
        THEN [error |-> KeyError(missing), table |-> NoTable]
        ELSE [error |-> NoError,
              table |-> WithComposite(WithComposite(WithNorms(t), Dims[1]), Dims[2])]

(***************************************************************************)
(* Input files of the difficulty mode                                      *)
(***************************************************************************)
\* ratings as written in a file: the documented ranges 1..9 and 1..5 and one
\* value past each end, since the file is not checked
TRLCells == 0..10

FeasibilityCells == 0..6

Triples == {<<a, b, c>> : a \in TRLCells, b \in FeasibilityCells, c \in FeasibilityCells}

\* the worst and the best ratings
CornerTriples == {<<1, 1, 5>>, <<9, 5, 1>>}

DifficultyHeader ==
  <<"technology", "industry", "company">>
    \o [i \in 1..Len(Ratings) |-> Suffixed(Ratings[i], "tech")]
    \o SubSeq(LookupOrder, Len(Ratings) + 1, Len(LookupOrder))

\* one-row files with all columns: one triple ranges over all cells, the
\* other two over the corners
RatingFiles ==
  {[cols |-> DifficultyHeader, rows |-> << <<1, 1, 1>> \o x.tech \o x.industry \o x.company >>] :
     x \in [tech : Triples, industry : CornerTriples, company : CornerTriples]
          \cup [tech : CornerTriples, industry : Triples, company : CornerTriples]
          \cup [tech : CornerTriples, industry : CornerTriples, company : Triples]}

\* files lacking any subset of the nine rating columns, the base ratings
\* named with or without the _tech suffix
PartialFiles ==
  {LET full == [cols |-> IF aliased THEN DifficultyHeader
                         ELSE <<"technical_element", "industry", "company">>
                                \o LookupOrder,
                rows |-> << <<1, 1, 1, 5, 3, 3, 6, 4, 2, 7, 2, 4>>,
                            <<2, 1, 2, 3, 2, 4, 9, 5, 1, 1, 1, 5>> >>]
   IN  KeepColumns(full, DOMAIN full.cols \ absent) :
     aliased \in BOOLEAN,
     absent \in SUBSET {i \in DOMAIN DifficultyHeader : i > Len(DifficultyHeader) - Len(LookupOrder)}}

InitDifficulty ==
  /\ view = "difficulty"
  /\ file \in RatingFiles \cup PartialFiles
  /\ pc = "start"
  /\ df = NoTable
  /\ group_col = ""
  /\ sel = 0
  /\ error = NoError
  /\ SingleRun

\* df_diff = load_difficulty(difficulty_path)
LoadDifficulty ==
  /\ pc = "start" /\ view = "difficulty"
  /\ LET res == load_difficulty(file)
     IN  /\ df' = res.table
         /\ error' = res.error
         /\ pc' = IF res.error = NoError THEN "scored" ELSE "failed"
  /\ UNCHANGED <<view, file, group_col, sel, disk, cache, uiVars>>

NextDifficulty == LoadDifficulty

SpecDifficulty == InitDifficulty /\ [][NextDifficulty]_vars

(***************************************************************************)
(* Difficulty mode: the cached loader, the selection and the charts        *)
(***************************************************************************)
\* s.unique(): the distinct values in order of first appearance
UniqueSeq(s) == Pick(s, {i \in DOMAIN s : \A j \in DOMAIN s : j < i => s[j] # s[i]}, 1)

\* t[t[c] == min(S)]: the rows of one selected element only
FilterFirstSelected(t, c, S) ==
  LET ci == ColIdx(t, c)
  IN  [t EXCEPT !.rows = SelectSeq(t.rows, LAMBDA row : row[ci] \in S /\ \A v \in S : row[ci] <= v)]

\* t[t[c].isin(S)]
FilterIsin(t, c, S) ==
  LET ci == ColIdx(t, c)
  IN  [t EXCEPT !.rows = SelectSeq(t.rows, LAMBDA row : row[ci] \in S)]

\* t[[names]]
Columns(t, names) ==
  [cols |-> names,
   rows |-> [r \in DOMAIN t.rows |-> [i \in DOMAIN names |-> Cell(t, r, names[i])]]]

\* t.sort_values([a, b]): the stable two-key sort, null cells last
SortTable(t, a, b) ==
  [t EXCEPT !.rows = SortRows(t.rows, Len(t.rows), ColIdx(t, a), ColIdx(t, b))]

Perms(n) == {f \in [1..n -> 1..n] : \A i, j \in 1..n : f[i] = f[j] => i = j}

\* t.sort_values(c, ascending=False): one key, so the default kind
\* "quicksort" sorts; it is not a stable sort, and every order of the rows
\* that is descending in c is a possible result
SortDescending(t, c) ==
  LET n == Len(t.rows)
      ci == ColIdx(t, c)
  IN  {[t EXCEPT !.rows = [i \in 1..n |-> t.rows[f[i]]]] :
         f \in {g \in Perms(n) : \A i \in 1..(n - 1) : t.rows[g[i]][ci] >= t.rows[g[i + 1]][ci]}}

Metrics == <<"Composite_Score", "TRL", "Technical_Feasibility", "Social_Feasibility">>

\* score_col
ScoreCol(metric, group_dim, t) ==
  IF metric = "Composite_Score" THEN CompositeCol(group_dim)
  ELSE IF HasCol(t, Suffixed(metric, group_dim)) THEN Suffixed(metric, group_dim)
  ELSE metric

\* group_dim.capitalize()
Capitalize(dim) == IF dim = "industry" THEN "Industry" ELSE "Company"

\* a selection that never counts as empty: the run goes on without rows
NeverEmpty(techs) == FALSE

\* not techs
EmptySelection(techs) == techs = {}

\* the value a widget returns: what the session holds for its key, or the
\* default when the key is not in the session yet
Widget(key, default) ==
  IF key \in session_state.keys THEN session_state[key] ELSE default

\* the cached loaders; load_monthly and load_country raise nothing
Loader(path, raw) ==
  CASE path = "monthly" -> [error |-> NoError, table |-> load_monthly(raw)]
    [] path = "grouped" -> [error |-> NoError, table |-> load_country(raw)]
    [] path = "difficulty" -> load_difficulty(raw)

\* a cache that is valid only while the file still gives the cached table
CachedLoadByContent(c, path, raw) ==
  LET res == Loader(path, raw)
  IN  IF c[path].present /\ c[path].table = res.table
        THEN [hit |-> TRUE, error |-> NoError, table |-> c[path].table, cache |-> c]
      ELSE [hit |-> FALSE, error |-> res.error, table |-> res.table,
            cache |-> IF res.error = NoError
                        THEN [c EXCEPT ![path] = Entry(res.table)] ELSE c]

\* a call of a loader decorated with @st.cache_data: the entry of the path if
\* there is one, whatever the file holds now; else the loader runs on the
\* file and its result is stored, unless it raised
CachedLoad(c, path, raw) ==
  IF c[path].present
    THEN [hit |-> TRUE, error |-> NoError, table |-> c[path].table, cache |-> c]
  ELSE LET res == Loader(path, raw)
       IN  [hit |-> FALSE, error |-> res.error, table |-> res.table,
            cache |-> IF res.error = NoError
                        THEN [c EXCEPT ![path] = Entry(res.table)] ELSE c]

\* largest number of rows of a difficulty file of the dashboard runs
MaxDashboardRows == 2

\* ratings of an easy and of a hard (technology, industry, company) row
EasyRatings == <<9, 5, 1>>

HardRatings == <<5, 3, 3>>

\* row i names industry i and company i; its industry ratings are easy or
\* hard and its company ratings the other way round, so that scores tie
DashboardFiles ==
  {[cols |-> DifficultyHeader,
    rows |-> [i \in DOMAIN rs |->
                <<rs[i].tech, i, i>> \o HardRatings
                  \o (IF rs[i].easy THEN EasyRatings ELSE HardRatings)
                  \o (IF rs[i].easy THEN HardRatings ELSE EasyRatings)]] :
     rs \in SeqsUpTo([tech : Techs, easy : BOOLEAN], MaxDashboardRows)}

InitDashboard ==
  /\ view = "difficulty"
  /\ file = NoTable
  /\ \E f \in DashboardFiles :
       disk = [p \in Paths |-> IF p = "difficulty" THEN f ELSE NoTable]
  /\ cache = EmptyCache
  /\ session_state = NewSession
  /\ pc = "start"
  /\ df = NoTable
  /\ group_col = ""
  /\ sel = 0
  /\ error = NoError
  /\ df_sel = NoTable
  /\ bar_df = NoTable
  /\ page = <<>>
  /\ computed = FALSE

\* metric = selectbox(..., key="metric"); group_dim = selectbox(..., key="group")
\* df_diff = load_difficulty(difficulty_path)
LoadDifficultyCached ==
  /\ pc = "start" /\ view = "difficulty"
  /\ session_state' = [session_state EXCEPT
                         !.keys = @ \cup {"metric", "group"},
                         !.metric = Widget("metric", Metrics[1]),
                         !.group = Widget("group", Dims[1])]
  /\ LET res == CachedLoad(cache, "difficulty", disk["difficulty"])
     IN  /\ df' = res.table
         /\ error' = res.error
         /\ cache' = res.cache
         /\ computed' = ~res.hit
         /\ pc' = IF res.error = NoError THEN "scored" ELSE "failed"
  /\ UNCHANGED <<view, file, group_col, sel, disk, df_sel, bar_df, page>>

\* techs = multiselect(options=unique elements, default=the same, key="tech_sel")
\* if not techs: st.warning(...); st.stop()
\* df_sel = df_diff[df_diff["technical_element"].isin(techs)]
SelectTechs ==
  /\ pc = "scored" /\ view = "difficulty"
  /\ IF ~HasCol(df, "technical_element")
       THEN /\ pc' = "failed" /\ error' = KeyError("technical_element")
            /\ UNCHANGED <<session_state, df_sel, page>>
     ELSE LET options == UniqueSeq(Column(df, "technical_element"))
              techs == Widget("tech_sel", Range(options))
          IN  /\ session_state' = [session_state EXCEPT
                                     !.keys = @ \cup {"tech_sel"}, !.tech_sel = techs]
              /\ IF EmptySelection(techs)
                   THEN /\ page' = Append(page, [kind |-> "warning", data |-> NoTable])
                        /\ pc' = "stopped"
                        /\ UNCHANGED df_sel
                   ELSE /\ df_sel' = FilterIsin(df, "technical_element", techs)
                        /\ pc' = "filtered"
                        /\ UNCHANGED page
              /\ UNCHANGED error
  /\ UNCHANGED <<view, file, df, group_col, sel, disk, cache, bar_df, computed>>

\* the three columns every chart and the table take from df_sel
ChartColumns == <<"technical_element", session_state.group,
                  ScoreCol(session_state.metric, session_state.group, df_sel)>>

\* score_col; for the Composite Score, bar_tech = selectbox(options=unique
\* elements of df_diff, key="bar_tech") and bar_df
BuildBar ==
  /\ pc = "filtered"
  /\ IF session_state.metric = "Composite_Score"
       THEN LET options == UniqueSeq(Column(df, "technical_element"))
                bar_tech == Widget("bar_tech", options[1])
                rows == Columns(FilterEq(df_sel, "technical_element", bar_tech), ChartColumns)
            IN  /\ session_state' = [session_state EXCEPT
                                       !.keys = @ \cup {"bar_tech"}, !.bar_tech = bar_tech]
                /\ bar_df' \in SortDescending(rows, ChartColumns[3])
       ELSE UNCHANGED <<session_state, bar_df>>
  /\ pc' = "charts"
  /\ UNCHANGED <<view, file, df, group_col, sel, error, disk, cache, df_sel, page, computed>>

\* the radar chart, the bar chart of the Composite Score, the score table
\* (the files hold no *_Comment_* column, so comment_col is None); st.stop()
Render ==
  /\ pc = "charts"
  /\ LET radar_df == Rename(Columns(df_sel, ChartColumns),
                            [x \in {ChartColumns[3]} |-> "value"])
         tbl == SortTable(Rename(Columns(df_sel, ChartColumns),
                                 [x \in Range(ChartColumns) |->
                                    CASE x = "technical_element" -> "Technical Element"
                                      [] x = session_state.group -> Capitalize(x)
                                      [] OTHER -> "Score"]),
                          "Technical Element", Capitalize(session_state.group))
     IN  page' = page \o <<[kind |-> "radar", data |-> radar_df]>>
                      \o (IF session_state.metric = "Composite_Score"
                            THEN <<[kind |-> "bar", data |-> bar_df]>> ELSE <<>>)
                      \o <<[kind |-> "table", data |-> tbl]>>
  /\ pc' = "done"
  /\ UNCHANGED <<view, file, df, group_col, sel, error, disk, cache,
                 session_state, df_sel, bar_df, computed>>

\* the run is over: by st.stop(), by an exception or at the end of the script
Ended == pc \in {"done", "stopped", "failed", "derived"}

\* the session after a run of the difficulty mode: the state of a widget the
\* run did not reach is dropped
KeptSession ==
  LET rendered == {"metric", "group"}
                    \cup (IF pc \in {"done", "stopped"} THEN {"tech_sel"} ELSE {})
                    \cup (IF pc = "done" /\ session_state.metric = "Composite_Score"
                            THEN {"bar_tech"} ELSE {})
  IN  [keys |-> rendered,
       metric |-> session_state.metric,
       group |-> session_state.group,
       tech_sel |-> IF "tech_sel" \in rendered THEN session_state.tech_sel ELSE {},
       bar_tech |-> IF "bar_tech" \in rendered THEN session_state.bar_tech ELSE 0,
       raw |-> TRUE,
       ma |-> TRUE]

\* what the user can make of the session with one widget of the page
WidgetChanges(ss) ==
  LET options == IF "tech_sel" \in ss.keys THEN Range(Column(df, "technical_element")) ELSE {}
  IN  {ss}
        \cup {[ss EXCEPT !.metric = m] : m \in Range(Metrics)}
        \cup {[ss EXCEPT !.group = d] : d \in Range(Dims)}
        \cup (IF "tech_sel" \in ss.keys
                THEN {[ss EXCEPT !.tech_sel = S] : S \in SUBSET options} ELSE {})
        \cup (IF "bar_tech" \in ss.keys
                THEN {[ss EXCEPT !.bar_tech = b] : b \in options} ELSE {})

\* the user changes a widget (or asks for a re-run): the script starts again
\* with the session and the cache as they are
Rerun ==
  /\ Ended /\ view = "difficulty"
  /\ session_state' \in WidgetChanges(KeptSession)
  /\ pc' = "start"
  /\ df' = NoTable /\ df_sel' = NoTable /\ bar_df' = NoTable
  /\ page' = <<>> /\ computed' = FALSE /\ error' = NoError
  /\ UNCHANGED <<view, file, group_col, sel, disk, cache>>

\* "Clear cache" of the Streamlit menu, between two runs
ClearCache ==
  /\ Ended
  /\ cache # EmptyCache
  /\ cache' = EmptyCache
  /\ UNCHANGED <<view, file, pc, df, group_col, sel, error, disk, uiVars>>

NextDashboard ==
  LoadDifficultyCached \/ SelectTechs \/ BuildBar \/ Render \/ Rerun \/ ClearCache

SpecDashboard == InitDashboard /\ [][NextDashboard]_vars

(***************************************************************************)
(* Repeated runs over files that change: the three cached loaders          *)
(***************************************************************************)
\* the contents a file takes in the runs over changing files
CacheFiles ==
  [monthly |->
     {ScenarioFile,
      [cols |-> MonthlyHeader,
       rows |-> << <<"2023-02", 2, 4, 3, TRUE>>, <<"2023-01", 2, 1, 1, TRUE>>,
                   <<"2023-13", 1, 7, 2, FALSE>> >>]},
   grouped |->
     {[cols |-> GroupedHeader,
       rows |-> << <<"2023-02", 1, 1, 3, 2, TRUE>>, <<"2023-01", 1, 1, 2, 1, TRUE>> >>],
      [cols |-> GroupedHeader,
       rows |-> << <<"2023-01", 1, 2, 5, 4, TRUE>>, <<"2023-01", 2, 1, 6, 1, FALSE>> >>]},
   difficulty |->
     {[cols |-> DifficultyHeader,
       rows |-> << <<1, 1, 1>> \o HardRatings \o EasyRatings \o HardRatings >>],
      [cols |-> DifficultyHeader,
       rows |-> << <<1, 1, 1>> \o HardRatings \o HardRatings \o EasyRatings,
                   <<2, 2, 2>> \o HardRatings \o EasyRatings \o HardRatings >>]}]

InitCache ==
  /\ view \in Paths
  /\ file = NoTable
  /\ disk \in [Paths -> UNION {CacheFiles[p] : p \in Paths}]
  /\ \A p \in Paths : disk[p] \in CacheFiles[p]
  /\ cache = EmptyCache
  /\ session_state = NewSession
  /\ pc = "start"
  /\ df = NoTable
  /\ group_col = ""
  /\ sel = 0
  /\ error = NoError
  /\ df_sel = NoTable
  /\ bar_df = NoTable
  /\ page = <<>>
  /\ computed = FALSE

\* df = load_monthly(path), behind @st.cache_data; group_col = "technical_element"
LoadMonthlyCached ==
  /\ pc = "start" /\ view = "monthly"
  /\ LET res == CachedLoad(cache, "monthly", disk["monthly"])
     IN  df' = res.table /\ cache' = res.cache /\ computed' = ~res.hit
  /\ group_col' = "technical_element"
  /\ pc' = "ready"
  /\ UNCHANGED <<view, file, sel, error, disk, session_state, df_sel, bar_df, page>>

\* df = load_country(path), behind @st.cache_data
LoadCountryCached ==
  /\ pc = "start" /\ view = "grouped"
  /\ LET res == CachedLoad(cache, "grouped", disk["grouped"])
     IN  df' = res.table /\ cache' = res.cache /\ computed' = ~res.hit
  /\ pc' = "loaded"
  /\ UNCHANGED <<view, file, group_col, sel, error, disk, session_state, df_sel, bar_df, page>>

\* the user picks a mode and a view (or the same again): a new run; the
\* widgets of the difficulty mode keep their state only from one run of
\* that mode to the next
Switch ==
  /\ Ended
  /\ \E v \in Paths :
       /\ view' = v
       /\ session_state' = IF view = "difficulty" /\ v = "difficulty"
                             THEN KeptSession ELSE NewSession
  /\ pc' = "start"
  /\ df' = NoTable /\ group_col' = "" /\ sel' = 0 /\ error' = NoError
  /\ df_sel' = NoTable /\ bar_df' = NoTable /\ page' = <<>> /\ computed' = FALSE
  /\ UNCHANGED <<file, disk, cache>>

\* a file is replaced on disk between two runs
WriteFile ==
  /\ Ended
  /\ \E p \in Paths : \E c \in CacheFiles[p] \ {disk[p]} :
       disk' = [disk EXCEPT ![p] = c]
  /\ UNCHANGED <<view, file, pc, df, group_col, sel, error, cache, uiVars>>

\* the server process is started again: no cache, a new session
Restart ==
  /\ Ended
  /\ cache' = EmptyCache
  /\ session_state' = NewSession
  /\ view' \in Paths
  /\ pc' = "start"
  /\ df' = NoTable /\ group_col' = "" /\ sel' = 0 /\ error' = NoError
  /\ df_sel' = NoTable /\ bar_df' = NoTable /\ page' = <<>> /\ computed' = FALSE
  /\ UNCHANGED <<file, disk>>

NextCache ==
  \/ LoadMonthlyCached \/ LoadCountryCached \/ LoadDifficultyCached
  \/ Select \/ Derive
  \/ SelectTechs \/ BuildBar \/ Render
  \/ Switch \/ WriteFile \/ ClearCache \/ Restart

SpecCache == InitCache /\ [][NextCache]_vars

(***************************************************************************)
(* The monthly view of patent_app_v1.4.py                                  *)
(***************************************************************************)
ValueError(c) == [type |-> "ValueError", name |-> c]

\* pd.to_datetime(x) raises on this cell: it is not empty (an empty cell is
\* read as NaN and becomes NaT) and it is no date
Unparseable(x) == x # "" /\ ToDatetime(x) = NaT

\* load_monthly of v1.4: to_datetime without errors="coerce", the renames
\* one after the other, then the five columns
load_monthly_v14(raw) ==
  IF \E r \in DOMAIN raw.rows : Unparseable(Cell(raw, r, "year_month"))
    THEN [error |-> ValueError("year_month"), table |-> NoTable]
  ELSE LET t0 == ParseYearMonth(raw)
           t1 == Rename(t0, [x \in {"items"} |-> "count"])
           t2 == IF HasCol(t1, "technical_elements")
                   THEN Rename(t1, [x \in {"technical_elements"} |-> "technical_element"])
                   ELSE t1
           t3 == IF HasCol(t2, "Technical_elements")
                   THEN Rename(t2, [x \in {"Technical_elements"} |-> "technical_element"])
                   ELSE t2
           wanted == <<"year_month", "technical_element", "count", "ma_6", "conversion_flag">>
           missing == FirstMissing(t3, wanted, 1)
       IN  IF missing # ""
             THEN [error |-> KeyError(missing), table |-> NoTable]
           ELSE [error |-> NoError, table |-> Columns(t3, wanted)]

\* largest number of rows of a file of the v1.4 runs
MaxLegacyRows == 2

\* year_month cells of the v1.4 files: a date, no date, an empty cell
LegacyDates == {"2023-01", "2023-13", ""}

LegacyHeader ==
  <<"year_month", "Technical_elements", "items", "ma_6", "conversion_flag", "note">>

LegacyFiles ==
  {[cols |-> LegacyHeader, rows |-> rs] :
     rs \in SeqsUpTo({<<d, t, n, 1, TRUE, 0>> : d \in LegacyDates, t \in Techs, n \in Counts},
                     MaxLegacyRows)}

InitLegacy ==
  /\ view = "monthly"
  /\ file \in LegacyFiles
  /\ pc = "start"
  /\ df = NoTable
  /\ group_col = ""
  /\ sel = 0
  /\ error = NoError
  /\ SingleRun

\* df = load_monthly(path_disp); group_col = 'technical_element'
LoadMonthlyV14 ==
  /\ pc = "start" /\ view = "monthly"
  /\ LET res == load_monthly_v14(file)
     IN  /\ df' = res.table
         /\ error' = res.error
         /\ pc' = IF res.error = NoError THEN "ready" ELSE "failed"
  /\ group_col' = "technical_element"
  /\ UNCHANGED <<view, file, sel, disk, cache, uiVars>>

\* df = df.sort_values([group_col,'year_month']) and the two cumsum columns
DeriveV14 ==
  /\ pc = "ready"
  /\ LET s == SortValues(df, group_col)
         c == WithColumn(s, "cumulative", GroupCumsum(s, group_col, "count"))
     IN  df' = WithColumn(c, "ma6_cum", GroupCumsum(c, group_col, "ma_6"))
  /\ pc' = "derived"
  /\ UNCHANGED <<view, file, group_col, sel, error, disk, cache, uiVars>>

NextLegacy == LoadMonthlyV14 \/ DeriveV14

SpecLegacy == InitLegacy /\ [][NextLegacy]_vars

(***************************************************************************)
(* The charts of the count views                                           *)
(***************************************************************************)
\* A figure is a record [kind, y, traces]; a trace holds its mode, its name
\* (<<k>> for the line px.line draws for key k, <<k, "6M MA">> for a moving
\* average line, <<>> for a trace without name), its legend group, the
\* column its y-values are taken from, its x and y values and its visibility.
Trace(mode, name, k, ycol, d) ==
  [mode |-> mode, name |-> name, legendgroup |-> k, ycol |-> ycol,
   x |-> Column(d, "year_month"), y |-> Column(d, ycol), visible |-> TRUE]

\* t[(t[g] == k) & t["conversion_flag"]]
Flagged(t, g, k) ==
  LET gi == ColIdx(t, g)
      fi == ColIdx(t, "conversion_flag")
  IN  [t EXCEPT !.rows = SelectSeq(t.rows, LAMBDA row : row[gi] = k /\ row[fi] = TRUE)]

\* the moving-average column that goes with y
MaColumn(y) == IF y = "count" THEN "ma_6" ELSE "ma6_cum"

\* px.line(t, x="year_month", y=y, color=g): one line per key
LineTraces(t, g, y) ==
  LET keys == UniqueSeq(Column(t, g))
  IN  [i \in DOMAIN keys |-> Trace("lines", <<keys[i]>>, keys[i], y, FilterEq(t, g, keys[i]))]

\* for k in keys: add_scatter(y=d[yma], mode="lines", name=f"{k} (6M MA)", legendgroup=k)
MaTraces(t, g, y) ==
  LET keys == UniqueSeq(Column(t, g))
  IN  [i \in DOMAIN keys |->
         Trace("lines", <<keys[i], "6M MA">>, keys[i], MaColumn(y), FilterEq(t, g, keys[i]))]

\* the keys that have a flagged row: the others are skipped (fl.empty)
FlaggedKeys(t, g) ==
  SelectSeq(UniqueSeq(Column(t, g)), LAMBDA k : Flagged(t, g, k).rows # <<>>)

\* for k in keys: add_scatter(y=fl[ycol], mode="markers", legendgroup=k)
MarkerTraces(t, g, ycol) ==
  LET keys == FlaggedKeys(t, g)
  IN  [i \in DOMAIN keys |-> Trace("markers", <<>>, keys[i], ycol, Flagged(t, g, keys[i]))]

\* if not show_raw: the lines whose name is a key are made invisible
HideRaw(traces, keys, show_raw) ==
  [i \in DOMAIN traces |->
     IF ~show_raw /\ traces[i].mode = "lines"
        /\ Len(traces[i].name) = 1 /\ traces[i].name[1] \in keys
       THEN [traces[i] EXCEPT !.visible = FALSE]
     ELSE traces[i]]

\* plot_counts(y, title) of v1.5 (and of v1.2 - v1.4) on the derived table
plot_counts(t, g, y, show_raw, show_ma) ==
  LET lines == LineTraces(t, g, y)
      mas == IF show_ma /\ y \in {"count", "cumulative"} THEN MaTraces(t, g, y) ELSE <<>>
      markers == IF show_ma /\ y \in {"count", "cumulative"} THEN MarkerTraces(t, g, MaColumn(y))
                 ELSE IF show_raw THEN MarkerTraces(t, g, y)
                 ELSE <<>>
  IN  [kind |-> "chart", y |-> y,
       traces |-> HideRaw(lines \o mas \o markers, Range(Column(t, g)), show_raw)]

\* largest number of rows of a file of the chart runs
MaxChartRows == 2

\* monthly files that vary the moving average and the conversion flag
ChartFiles ==
  {[cols |-> MonthlyHeader, rows |-> rs] :
     rs \in SeqsUpTo({<<d, t, 5, a, fl>> : d \in {"2023-01", "2023-02"}, t \in Techs,
                                            a \in Averages, fl \in BOOLEAN},
                     MaxChartRows)}

InitCharts ==
  /\ view = "monthly"
  /\ file \in ChartFiles
  /\ pc = "start"
  /\ df = NoTable
  /\ group_col = ""
  /\ sel = 0
  /\ error = NoError
  /\ SingleRun

\* st.subheader(view_mode); plot_counts("count", view_mode)
PlotCount ==
  /\ pc = "derived"
  /\ page' = Append(page, plot_counts(df, group_col, "count",
                                      session_state.raw, session_state.ma))
  /\ pc' = "plotted_count"
  /\ UNCHANGED <<view, file, df, group_col, sel, error, disk, cache,
                 session_state, df_sel, bar_df, computed>>

\* plot_counts("cumulative", ...); st.dataframe(df[[...]])
PlotCumulative ==
  /\ pc = "plotted_count"
  /\ page' = page \o
       <<plot_counts(df, group_col, "cumulative", session_state.raw, session_state.ma),
         [kind |-> "table",
          data |-> Columns(df, <<"year_month", group_col, "count", "ma_6",
                                 "conversion_flag", "cumulative">>)]>>
  /\ pc' = "plotted"
  /\ UNCHANGED <<view, file, df, group_col, sel, error, disk, cache,
                 session_state, df_sel, bar_df, computed>>

\* the user ticks or unticks one of the two checkboxes: the script runs again
Toggle ==
  /\ pc \in {"plotted", "failed"}
  /\ \/ session_state' = [session_state EXCEPT !.raw = ~@]
     \/ session_state' = [session_state EXCEPT !.ma = ~@]
  /\ pc' = "start"
  /\ df' = NoTable /\ group_col' = "" /\ error' = NoError /\ page' = <<>>
  /\ UNCHANGED <<view, file, sel, disk, cache, df_sel, bar_df, computed>>

NextCharts == LoadMonthly \/ Derive \/ PlotCount \/ PlotCumulative \/ Toggle

SpecCharts == InitCharts /\ [][NextCharts]_vars

(***************************************************************************)
(* The monthly view of patent_app_v1.1.py and its two charts               *)
(***************************************************************************)
\* load_combined_monthly of v1.1: to_datetime without errors="coerce", the
\* first of category / Technical_elements renamed, then the five columns
load_combined_monthly(raw) ==
  IF \E r \in DOMAIN raw.rows : Unparseable(Cell(raw, r, "year_month"))
    THEN [error |-> ValueError("year_month"), table |-> NoTable]
  ELSE LET t0 == ParseYearMonth(raw)
           t1 == Rename(t0, [x \in {"items"} |-> "count"])
           t2 == IF HasCol(t1, "category")
                   THEN Rename(t1, [x \in {"category"} |-> "technical_element"])
                 ELSE IF HasCol(t1, "Technical_elements")
                   THEN Rename(t1, [x \in {"Technical_elements"} |-> "technical_element"])
                 ELSE t1
           wanted == <<"year_month", "technical_element", "count", "ma_6", "conversion_flag">>
           missing == FirstMissing(t2, wanted, 1)
       IN  IF missing # ""
             THEN [error |-> KeyError(missing), table |-> NoTable]
           ELSE [error |-> NoError, table |-> Columns(t2, wanted)]

\* d = t[t[g] == k].copy(); d['ma6_cum'] = d['ma_6'].cumsum()
SliceWithMa(t, g, k) ==
  WithColumn(FilterEq(t, g, k), "ma6_cum", SliceCumsum(t, g, k, "ma_6"))

\* fig_monthly of v1.1: the marker of a flagged key is always added, on the
\* counts if show_raw and on ma_6 otherwise
monthly_chart_v11(t, g, show_raw, show_ma) ==
  LET lines == LineTraces(t, g, "count")
      mas == IF show_ma THEN MaTraces(t, g, "count") ELSE <<>>
      markers == MarkerTraces(t, g, IF show_raw THEN "count" ELSE "ma_6")
  IN  [kind |-> "chart", y |-> "count",
       traces |-> HideRaw(lines \o mas \o markers, Range(Column(t, g)), show_raw)]

\* fig_cum of v1.1: no marker when both checkboxes are off
cumulative_chart_v11(t, g, show_raw, show_ma) ==
  LET keys == UniqueSeq(Column(t, g))
      flagged == FlaggedKeys(t, g)
      lines == LineTraces(t, g, "cumulative")
      mas == IF show_ma
               THEN [i \in DOMAIN keys |->
                       Trace("lines", <<keys[i], "cumulative 6M MA">>, keys[i], "ma6_cum",
                             SliceWithMa(t, g, keys[i]))]
               ELSE <<>>
      markers == IF ~show_raw /\ ~show_ma THEN <<>>
                 ELSE [i \in DOMAIN flagged |->
                         Trace("markers", <<>>, flagged[i],
                               IF show_raw THEN "cumulative" ELSE "ma6_cum",
                               Flagged(SliceWithMa(t, g, flagged[i]), g, flagged[i]))]
  IN  [kind |-> "chart", y |-> "cumulative",
       traces |-> HideRaw(lines \o mas \o markers, Range(keys), show_raw)]

\* df = load_combined_monthly(monthly_path); group_col = 'technical_element'
LoadMonthlyV11 ==
  /\ pc = "start" /\ view = "monthly"
  /\ LET res == load_combined_monthly(file)
     IN  /\ df' = res.table
         /\ error' = res.error
         /\ pc' = IF res.error = NoError THEN "ready" ELSE "failed"
  /\ group_col' = "technical_element"
  /\ UNCHANGED <<view, file, sel, disk, cache, uiVars>>

\* df = df.sort_values([group_col, 'year_month']); df['cumulative'] = ...
DeriveV11 ==
  /\ pc = "ready"
  /\ LET s == SortValues(df, group_col)
     IN  df' = WithColumn(s, "cumulative", GroupCumsum(s, group_col, "count"))
  /\ pc' = "derived"
  /\ UNCHANGED <<view, file, group_col, sel, error, disk, cache, uiVars>>

\* the monthly chart
PlotMonthlyV11 ==
  /\ pc = "derived"
  /\ page' = Append(page, monthly_chart_v11(df, group_col,
                                            session_state.raw, session_state.ma))
  /\ pc' = "plotted_count"
  /\ UNCHANGED <<view, file, df, group_col, sel, error, disk, cache,
                 session_state, df_sel, bar_df, computed>>

\* the cumulative chart
PlotCumulativeV11 ==
  /\ pc = "plotted_count"
  /\ page' = Append(page, cumulative_chart_v11(df, group_col,
                                               session_state.raw, session_state.ma))
  /\ pc' = "plotted"
  /\ UNCHANGED <<view, file, df, group_col, sel, error, disk, cache,
                 session_state, df_sel, bar_df, computed>>

NextChartsV11 ==
  LoadMonthlyV11 \/ DeriveV11 \/ PlotMonthlyV11 \/ PlotCumulativeV11 \/ Toggle

SpecChartsV11 == InitCharts /\ [][NextChartsV11]_vars

(***************************************************************************)
(* Properties of the difficulty scorer (specification SpecDifficulty)      *)
(***************************************************************************)
\* the ratings of row r of t for dimension dim, as <<TRL, Technical, Social>>
DimRatings(t, r, dim) ==
  [i \in DOMAIN Ratings |-> Cell(t, r, Suffixed(Ratings[i], dim))]

RatingsInRange(x) == x[1] \in 1..9 /\ x[2] \in 1..5 /\ x[3] \in 1..5

\* the three normalised sub-scores of every scored row lie in [0,1] when the
\* rating they are computed from is in range
NormsInUnitInterval ==
  pc = "scored" =>
    \A r \in DOMAIN df.rows :
      /\ Cell(df, r, "TRL") \in 1..9 => Cell(df, r, "TRL_norm") \in 0..One
      /\ Cell(df, r, "Technical_Feasibility") \in 1..5 => Cell(df, r, "Tech_norm") \in 0..One
      /\ Cell(df, r, "Social_Feasibility") \in 1..5 => Cell(df, r, "Social_inv_norm") \in 0..One

\* C1 as stated: for every row whose ratings are in range, the three
\* normalised sub-scores and both Composite Scores lie in [0,1].
C1_ScoresInUnitInterval ==
  /\ NormsInUnitInterval
  /\ pc = "scored" =>
       \A r \in DOMAIN df.rows : \A i \in DOMAIN Dims :
         RatingsInRange(DimRatings(df, r, Dims[i]))
           => Cell(df, r, CompositeCol(Dims[i])) \in 0..One

\* C1 as amended: for every row whose ratings are in range, the three
\* normalised sub-scores lie in [0,1] and both Composite Scores lie in
\* [0,1.05].
C1_ScoresBounded ==
  /\ NormsInUnitInterval
  /\ pc = "scored" =>
       \A r \in DOMAIN df.rows : \A i \in DOMAIN Dims :
         RatingsInRange(DimRatings(df, r, Dims[i]))
           => 100 * Cell(df, r, CompositeCol(Dims[i])) \in 0..(105 * One)

\* a scored row with every rating in range, TRL_norm = 1 and a Composite
\* Score above 1
C1_Witness ==
  /\ pc = "scored"
  /\ \E r \in DOMAIN df.rows :
       /\ Cell(df, r, "TRL") = 9 /\ Cell(df, r, "TRL_norm") = One
       /\ Cell(df, r, "Technical_Feasibility") \in 1..5
       /\ Cell(df, r, "Social_Feasibility") \in 1..5
       /\ \A i \in DOMAIN Dims : RatingsInRange(DimRatings(df, r, Dims[i]))
       /\ Cell(df, r, "Composite_Score_industry") > One

\* the best ratings: TRL 9, Technical Feasibility 5, Social Feasibility 1
BestRatings == <<9, 5, 1>>

\* C2 as stated: the weights sum to 1.0, and a row with the best ratings for
\* a dimension has Composite Score 1.0 for it.
C2_BestScoreIsOne ==
  pc = "scored" =>
    \A r \in DOMAIN df.rows : \A i \in DOMAIN Dims :
      DimRatings(df, r, Dims[i]) = BestRatings
        => /\ WeightTRL + WeightTech + WeightSocial = 100
           /\ Cell(df, r, CompositeCol(Dims[i])) = One

\* C2 as amended: the weights sum to 1.05, and a row with the best ratings
\* for a dimension has Composite Score 1.05 for it.
C2_BestScoreIsWeightSum ==
  pc = "scored" =>
    \A r \in DOMAIN df.rows : \A i \in DOMAIN Dims :
      DimRatings(df, r, Dims[i]) = BestRatings
        => /\ WeightTRL + WeightTech + WeightSocial = 105
           /\ 100 * Cell(df, r, CompositeCol(Dims[i])) = 105 * One

\* a scored row with the best ratings for company and not for industry
C2_Witness ==
  /\ pc = "scored"
  /\ \E r \in DOMAIN df.rows :
       /\ DimRatings(df, r, "company") = BestRatings
       /\ DimRatings(df, r, "industry") # BestRatings
       /\ Cell(df, r, "Composite_Score_company") > Cell(df, r, "Composite_Score_industry")

\* C10 as stated: when the file lacks a rating column of dimension d, the
\* load ends in an error that names a column of d, and returns no table.
C10_MissingDimensionReported ==
  pc # "start" =>
    \A i \in DOMAIN Dims :
      (\E j \in DOMAIN Ratings : ~HasCol(file, Suffixed(Ratings[j], Dims[i])))
        => /\ pc = "failed"
           /\ df = NoTable
           /\ error.type = "KeyError"
           /\ error.name \in {Suffixed(Ratings[j], Dims[i]) : j \in DOMAIN Ratings}

(***************************************************************************)
(* Properties of the count views (specification Spec)                      *)
(***************************************************************************)
\* the loader has returned its table and no later step has run
LoaderReturned ==
  \/ view = "monthly" /\ pc = "ready"
  \/ view = "grouped" /\ pc = "loaded"

\* the rows of t whose group column g holds k
PartitionRows(t, g, k) == {r \in DOMAIN t.rows : Cell(t, r, g) = k}

\* the rows of t before row r in the partition of row r
Earlier(t, g, r) == {q \in PartitionRows(t, g, Cell(t, r, g)) : q < r}

MaxOf(S) == CHOOSE x \in S : \A y \in S : y <= x

\* C3: after the derive step, the cumulative value on the last row of every
\* partition is the sum of count over the partition; the scenario's two
\* rows with counts 10 and 5 get cumulative 10 and 15.
C3_LastCumulativeIsPartitionSum ==
  pc = "derived" =>
    /\ \A k \in Range(Column(df, group_col)) :
         LET P == PartitionRows(df, group_col, k)
         IN  Cell(df, MaxOf(P), "cumulative") = SumOver(Column(df, "count"), P)
    /\ file = ScenarioFile => Column(df, "cumulative") = <<10, 15>>

\* a derived table with two partitions, one of several rows whose last
\* cumulative value is not its own count
C3_Witness ==
  /\ pc = "derived"
  /\ Cardinality(Range(Column(df, group_col))) > 1
  /\ \E k \in Range(Column(df, group_col)) :
       LET P == PartitionRows(df, group_col, k)
       IN  /\ Cardinality(P) > 1
           /\ Cell(df, MaxOf(P), "cumulative") # Cell(df, MaxOf(P), "count")

\* C4 as stated: within every partition the cumulative series, read in
\* timestamp order, starts at 0 and never decreases.
C4_StartsAtZeroAndMonotone ==
  pc = "derived" =>
    \A r \in DOMAIN df.rows :
      LET prev == Earlier(df, group_col, r)
      IN  IF prev = {} THEN Cell(df, r, "cumulative") = 0
          ELSE Cell(df, r, "cumulative") >= Cell(df, MaxOf(prev), "cumulative")

\* C4 as amended: within every partition the rows are in timestamp order
\* (null timestamps last), the cumulative series starts at the first row's
\* count, every later value is the previous value plus the row's count, and
\* so a step does not decrease when its count is not negative.
C4_RunningSumOfCounts ==
  pc = "derived" =>
    \A r \in DOMAIN df.rows :
      LET prev == Earlier(df, group_col, r)
      IN  /\ \A q \in prev : ~TsLess(Cell(df, r, "year_month"), Cell(df, q, "year_month"))
          /\ Cell(df, r, "cumulative")
               = Cell(df, r, "count")
                   + (IF prev = {} THEN 0 ELSE Cell(df, MaxOf(prev), "cumulative"))
          /\ (prev # {} /\ Cell(df, r, "count") >= 0)
               => Cell(df, r, "cumulative") >= Cell(df, MaxOf(prev), "cumulative")

\* a derived partition that starts above 0 and then decreases
C4_Witness ==
  /\ pc = "derived"
  /\ \E r \in DOMAIN df.rows :
       LET prev == Earlier(df, group_col, r)
       IN  /\ Cardinality(prev) = 1
           /\ Cell(df, MaxOf(prev), "cumulative") > 0
           /\ Cell(df, r, "cumulative") < Cell(df, MaxOf(prev), "cumulative")

\* C5: for a file with an items column, the table the loader returns has a
\* count column and none of its values is negative.
C5_CountNeverNegative ==
  (LoaderReturned /\ HasCol(file, "items")) =>
    /\ HasCol(df, "count")
    /\ \A r \in DOMAIN df.rows : Cell(df, r, "count") >= 0

\* the priority list as C6 states it
C6_Priority == <<"Country", "country", "Company", "company", "industry", "Industry">>

C6_Rank(c) == CHOOSE i \in DOMAIN C6_Priority : C6_Priority[i] = c

\* C6: of the candidate columns of the file, load_country renames exactly
\* the one first in the priority list to key, wherever it stands in the
\* file, and the other candidates keep their names; with no candidate
\* there is no key column.
C6_KeyByPriority ==
  (view = "grouped" /\ pc = "loaded") =>
    LET cand == {i \in DOMAIN file.cols : file.cols[i] \in Range(C6_Priority)}
    IN  IF cand = {} THEN ~HasCol(df, "key")
        ELSE LET w == CHOOSE i \in cand :
                        \A j \in cand : C6_Rank(file.cols[i]) <= C6_Rank(file.cols[j])
             IN  /\ ColIdxs(df, "key") = {w}
                 /\ \A j \in cand \ {w} : df.cols[j] = file.cols[j]

\* a file with company to the left of Country, loaded with Country as key
C6_Witness ==
  /\ view = "grouped" /\ pc = "loaded"
  /\ HasCol(file, "Country") /\ HasCol(file, "company")
  /\ ColIdx(file, "company") < ColIdx(file, "Country")
  /\ df.cols[ColIdx(file, "Country")] = "key"
  /\ df.cols[ColIdx(file, "company")] = "company"

\* the priority order of the aliases as C7 states it
C7_AliasPriority == <<"category", "Technical_elements", "technical_elements">>

\* C7: in a monthly view the technical_element column of the derived table
\* holds the values of the alias column earliest in the priority order,
\* wherever the alias columns stand in the file.
C7_PriorityAliasWins ==
  (view = "monthly" /\ pc = "derived") =>
    LET a == FirstPresent(file, C7_AliasPriority, 1)
    IN  a # "" => Range(Column(df, "technical_element")) = Range(Column(file, a))

\* C8: a run never ends by reading a column name that the renames
\* duplicated, and the derived table has every column name once.
C8_DuplicatesDroppedBeforeRead ==
  /\ pc = "failed" => error.type # "AttributeError"
  /\ pc = "derived" => \A c \in Range(df.cols) : Cardinality(ColIdxs(df, c)) = 1

\* C9: every table a loader returns has a count and a technical_element
\* column.
C9_LoaderRejectsMissingColumns ==
  LoaderReturned => HasCol(df, "count") /\ HasCol(df, "technical_element")

(***************************************************************************)
(* Claims about the difficulty mode (SpecDashboard)                        *)
(***************************************************************************)
\* the run has passed the selection of the technical elements
PastSelection == pc \in {"filtered", "charts", "done"}

OnlyWarning == page = <<[kind |-> "warning", data |-> NoTable]>>

\* C11 as stated: a run rejected for its empty selection has neither
\* computed the Composite Score nor put a chart or a table on the page.
C11_RejectedBeforeScoring ==
  pc = "stopped" => ~computed /\ OnlyWarning

\* C11: an empty selection of technical elements stops the run with the
\* warning as its only output, before the filter and before any chart or
\* table; the scored table was loaded before the selection was read (and
\* computed, when the cache held no entry), and no run gets past the
\* selection with an empty one.
C11_RejectedBeforeRendering ==
  /\ pc = "stopped" =>
       /\ session_state.tech_sel = {}
       /\ OnlyWarning
       /\ df_sel = NoTable /\ bar_df = NoTable
       /\ \A d \in Range(Dims) : HasCol(df, CompositeCol(d))
  /\ PastSelection => session_state.tech_sel # {}

\* a run stopped for its empty selection that did compute the scores
C11_Witness == pc = "stopped" /\ computed /\ OnlyWarning

\* the rows of df_diff whose technical element is selected
SelectedRows ==
  {i \in DOMAIN df.rows : Cell(df, i, "technical_element") \in session_state.tech_sel}

\* the k-th of them in the order of df_diff
NthSelected(k) ==
  CHOOSE i \in SelectedRows : Cardinality({j \in SelectedRows : j < i}) = k - 1

\* the scores of row r of t are those of its own ratings
ScoredFromOwnRatings(t, r) ==
  /\ Cell(t, r, "TRL_norm") = TRLNorm(Cell(t, r, "TRL"))
  /\ Cell(t, r, "Tech_norm") = TechNorm(Cell(t, r, "Technical_Feasibility"))
  /\ Cell(t, r, "Social_inv_norm") = SocialInvNorm(Cell(t, r, "Social_Feasibility"))
  /\ \A d \in Range(Dims) :
       Cell(t, r, CompositeCol(d)) =
         CompositeScore(Cell(t, r, Suffixed("TRL", d)),
                        Cell(t, r, Suffixed("Technical_Feasibility", d)),
                        Cell(t, r, Suffixed("Social_Feasibility", d)))

\* C12: the filtered table is exactly the rows of the scored table whose
\* technical element is selected, in their order there and cell for cell
\* as there; the scored table is what the loader makes of the file whatever
\* the selection, and every retained row carries the normalized sub-scores
\* and composite scores of its own ratings.
C12_FilterIsPostFilter ==
  PastSelection =>
    /\ df = load_difficulty(disk["difficulty"]).table
    /\ df_sel.cols = df.cols
    /\ Len(df_sel.rows) = Cardinality(SelectedRows)
    /\ \A k \in DOMAIN df_sel.rows :
         /\ df_sel.rows[k] = df.rows[NthSelected(k)]
         /\ ScoredFromOwnRatings(df_sel, k)

\* a selection that keeps a row and drops another
C12_Witness ==
  /\ PastSelection
  /\ Len(df_sel.rows) >= 1
  /\ Len(df_sel.rows) < Len(df.rows)

\* the run has built the bar chart's table
BarBuilt == pc \in {"charts", "done"} /\ session_state.metric = "Composite_Score"

\* the rows of the filtered table for the bar element, in its three columns
BarRows ==
  Columns(FilterEq(df_sel, "technical_element", session_state.bar_tech), ChartColumns).rows

\* C17: the bar chart's table is exactly the rows of the filtered table
\* whose technical element is the bar element, by Composite Score
\* descending, rows of equal score in their order in the filtered table.
C17_BarSortedStable ==
  BarBuilt =>
    /\ bar_df.cols = ChartColumns
    /\ Len(bar_df.rows) = Len(BarRows)
    /\ \E f \in Perms(Len(BarRows)) :
         /\ \A i \in DOMAIN BarRows : bar_df.rows[i] = BarRows[f[i]]
         /\ \A i, j \in DOMAIN BarRows :
              i < j => \/ BarRows[f[i]][3] > BarRows[f[j]][3]
                       \/ BarRows[f[i]][3] = BarRows[f[j]][3] /\ f[i] < f[j]

\* C20: a bar chart on the page has at least one row of data.
C20_BarChartNeverEmpty ==
  \A i \in DOMAIN page : page[i].kind = "bar" => Len(page[i].data.rows) >= 1

(***************************************************************************)
(* Claims about the loader cache (SpecCache)                               *)
(***************************************************************************)
\* the step is the loader call of a run on path p
LoaderCall(p) == pc = "start" /\ view = p /\ pc' # "start"

\* C13: a loader call on a path that has an entry returns the entry's table
\* and leaves the cache alone, whatever the file holds by then; a call on a
\* path without entry returns what the loader makes of the file as it is
\* now and stores it; and an entry changes in no other step than one that
\* empties the whole cache (cache clear, process restart).
C13_CachedUntilCleared ==
  [][\A p \in Paths :
       /\ LoaderCall(p) /\ cache[p].present =>
            df' = cache[p].table /\ cache' = cache
       /\ LoaderCall(p) /\ ~cache[p].present =>
            /\ df' = Loader(p, disk[p]).table
            /\ cache'[p] = Entry(df')
       /\ cache[p].present /\ cache'[p] # cache[p] => cache' = EmptyCache]_vars

\* a run that got the table of an earlier call although the file has
\* changed since
C13_Witness ==
  /\ pc \in {"ready", "loaded", "scored"}
  /\ cache[view].present
  /\ df = cache[view].table
  /\ df # Loader(view, disk[view]).table

\* the number of rows of t equal to x in their first n cells
Occurrences(t, x, n) == Cardinality({i \in DOMAIN t.rows : SubSeq(t.rows[i], 1, n) = x})

\* the cached table a run of a count view derives from
CachedBase ==
  IF view = "monthly" THEN cache["monthly"].table
  ELSE FilterEq(cache["grouped"].table, "technical_element", sel)

\* C19: whatever runs came before, a cache entry is a table a loader made
\* of a file, with no cumulative and no ma6_cum column; and the table a
\* run derives holds the rows of the entry (of the picked element) once
\* each, with cumulative and ma6_cum the running sums over those rows only,
\* so they are the same in every run with the same selection.
C19_CacheNotMutated ==
  /\ \A p \in Paths : cache[p].present =>
       /\ ~HasCol(cache[p].table, "cumulative")
       /\ ~HasCol(cache[p].table, "ma6_cum")
       /\ \E c \in CacheFiles[p] : cache[p].table = Loader(p, c).table
  /\ (pc = "derived" /\ cache[view].present) =>
       LET n == Len(CachedBase.cols)
       IN  /\ df.cols = CachedBase.cols \o <<"cumulative", "ma6_cum">>
           /\ Len(df.rows) = Len(CachedBase.rows)
           /\ \A r \in DOMAIN df.rows :
                /\ Occurrences(df, SubSeq(df.rows[r], 1, n), n)
                     = Occurrences(CachedBase, SubSeq(df.rows[r], 1, n), n)
                /\ Cell(df, r, "cumulative")
                     = SumOver(Column(df, "count"), Earlier(df, group_col, r) \cup {r})
                /\ Cell(df, r, "ma6_cum")
                     = SumOver(Column(df, "ma_6"), Earlier(df, group_col, r) \cup {r})

\* a monthly run derived from the entry of an earlier monthly run (a cache
\* hit), after a grouped run has been made as well
C19_Witness ==
  /\ view = "monthly" /\ pc = "derived" /\ ~computed
  /\ cache["monthly"].present /\ cache["grouped"].present
  /\ Len(df.rows) = Len(cache["monthly"].table.rows)

(***************************************************************************)
(* Claims about timestamp parsing (SpecLegacy)                             *)
(***************************************************************************)
\* C14: timestamp parsing never fails the load: the loader returns as many
\* rows as the file has, each at its place, with a null timestamp where the
\* year_month cell does not parse.
C14_ParsingNeverFailsLoad ==
  /\ pc # "failed"
  /\ pc = "ready" =>
       /\ Len(df.rows) = Len(file.rows)
       /\ \A r \in DOMAIN file.rows :
            Unparseable(Cell(file, r, "year_month")) => Cell(df, r, "year_month") = NaT

(***************************************************************************)
(* Claims about the order of the derived table (Spec)                      *)
(***************************************************************************)
\* C15: after the derive step no row with a null timestamp stands before a
\* row of its partition that has a timestamp, and the cumulative value of a
\* row that has a timestamp is the sum of the counts of the rows of its
\* partition up to it that have one: it holds the count of no
\* null-timestamp row.
C15_NullTimestampsLast ==
  pc = "derived" =>
    \A r \in DOMAIN df.rows :
      Cell(df, r, "year_month") # NaT =>
        LET dated == {q \in Earlier(df, group_col, r) \cup {r} :
                        Cell(df, q, "year_month") # NaT}
        IN  /\ dated = Earlier(df, group_col, r) \cup {r}
            /\ Cell(df, r, "cumulative") = SumOver(Column(df, "count"), dated)

\* a monthly file with an undated row before a dated row of the same
\* technical element, derived
C15_Witness ==
  /\ pc = "derived" /\ view = "monthly" /\ HasCol(file, "category")
  /\ \E i, j \in DOMAIN file.rows :
       /\ i < j
       /\ Cell(file, i, "category") = Cell(file, j, "category")
       /\ ToDatetime(Cell(file, i, "year_month")) = NaT
       /\ ToDatetime(Cell(file, j, "year_month")) # NaT

\* the table the derive step sorts: the loader's output, restricted to the
\* picked technical element in a grouped view, first occurrence of each name
BeforeDerive ==
  DropDuplicateColumns(IF view = "monthly" THEN load_monthly(file)
                       ELSE FilterEq(load_country(file), "technical_element", sel))

\* the rows of t with group value k and timestamp ts, in the order of t,
\* cut to their first n cells
TiedRows(t, k, ts, n) ==
  LET gi == ColIdx(t, group_col)
      ti == ColIdx(t, "year_month")
      tied == SelectSeq(t.rows, LAMBDA row : row[gi] = k /\ row[ti] = ts)
  IN  [i \in DOMAIN tied |-> SubSeq(tied[i], 1, n)]

\* C16: the derived table is ascending by (group column, year_month), null
\* timestamps closing their group, and the rows that agree on both stand in
\* the order they have in the loader's output.
C16_SortedAndStable ==
  pc = "derived" =>
    /\ \A r \in DOMAIN df.rows : r > 1 =>
         LET g1 == Cell(df, r - 1, group_col)   g2 == Cell(df, r, group_col)
             t1 == Cell(df, r - 1, "year_month") t2 == Cell(df, r, "year_month")
         IN  g1 < g2 \/ (g1 = g2 /\ (t2 = NaT \/ (t1 # NaT /\ t1 <= t2)))
    /\ \A r \in DOMAIN df.rows :
         LET n == Len(BeforeDerive.cols)
             k == Cell(df, r, group_col)
             ts == Cell(df, r, "year_month")
         IN  TiedRows(df, k, ts, n) = TiedRows(BeforeDerive, k, ts, n)

\* a derived table with two neighbours that agree on group and timestamp
\* and differ in their count
C16_Witness ==
  /\ pc = "derived"
  /\ \E r \in DOMAIN df.rows :
       /\ r > 1
       /\ Cell(df, r - 1, group_col) = Cell(df, r, group_col)
       /\ Cell(df, r - 1, "year_month") = Cell(df, r, "year_month")
       /\ Cell(df, r - 1, "count") # Cell(df, r, "count")

\* the values of column c on the rows of t with group value k, in order
ValuesOfKey(t, k, c) ==
  LET ci == ColIdx(t, c)
      of_k == SelectSeq(t.rows, LAMBDA row : row[ColIdx(t, group_col)] = k)
  IN  [i \in DOMAIN of_k |-> of_k[i][ci]]

\* C18: after the derive step the ma6_cum of a row is the sum of ma_6 over
\* the rows of its partition up to and including it, and for every key the
\* per-key slice with its own cumsum (v1.1) gives the values the grouped
\* cumsum put on the rows of that key.
C18_CumulativeAverageAgrees ==
  pc = "derived" =>
    /\ \A r \in DOMAIN df.rows :
         Cell(df, r, "ma6_cum")
           = SumOver(Column(df, "ma_6"), Earlier(df, group_col, r) \cup {r})
    /\ \A k \in Range(Column(df, group_col)) :
         SliceCumsum(df, group_col, k, "ma_6") = ValuesOfKey(df, k, "ma6_cum")

\* a derived table with two partitions, one of them with two rows of
\* different moving averages
C18_Witness ==
  /\ pc = "derived"
  /\ Cardinality(Range(Column(df, group_col))) > 1
  /\ \E r \in DOMAIN df.rows :
       \E q \in Earlier(df, group_col, r) :
         /\ Cell(df, q, "ma_6") # Cell(df, r, "ma_6")
         /\ Cell(df, r, "ma6_cum") = Cell(df, q, "ma_6") + Cell(df, r, "ma_6")

(***************************************************************************)
(* Claims about the charts (SpecCharts, SpecChartsV11)                     *)
(***************************************************************************)
\* trace m of figure fig lies on a line of the figure that is displayed:
\* same legend group, same column, visible
OnDisplayedSeries(fig, m) ==
  \E i \in DOMAIN fig.traces :
    /\ fig.traces[i].mode = "lines"
    /\ fig.traces[i].visible
    /\ fig.traces[i].legendgroup = m.legendgroup
    /\ fig.traces[i].ycol = m.ycol

\* C21: for every chart on the page and every marker trace in it, at least
\* one of show_raw and show_ma is on, the legend group of the trace is the
\* key of its (flagged) rows, and its y-values are those of a series the
\* chart displays for that key: a raw column only if show_raw is on, a
\* moving-average column only if show_ma is on.
C21_MarkersOnDisplayedSeries ==
  \A f \in DOMAIN page : page[f].kind = "chart" =>
    \A i \in DOMAIN page[f].traces :
      LET m == page[f].traces[i]
      IN  m.mode = "markers" =>
            /\ session_state.raw \/ session_state.ma
            /\ m.legendgroup \in Range(Column(df, group_col))
            /\ m.y = Column(Flagged(IF HasCol(df, m.ycol) THEN df
                                    ELSE SliceWithMa(df, group_col, m.legendgroup),
                                    group_col, m.legendgroup), m.ycol)
            /\ m.ycol \in {"count", "cumulative"} => session_state.raw
            /\ m.ycol \in {"ma_6", "ma6_cum"} => session_state.ma
            /\ OnDisplayedSeries(page[f], m)
====
